---- MODULE Spec2Model ----
(***************************************************************************)
(* Model of minesweeper.py: the Minesweeper board, the Sentence class and  *)
(* the MinesweeperAI knowledge base, with its move queries.                *)
(***************************************************************************)
EXTENDS Integers, FiniteSets, Sequences, TLC

VARIABLES height, width, board, moves_made, mines, safes, knowledge, calls,
          marks, ret

vars == <<height, width, board, moves_made, mines, safes, knowledge, calls,
          marks, ret>>
kb == <<moves_made, mines, safes, knowledge>>

(* ---------------- bounds ---------------- *)
MaxCalls == 2       \* add_knowledge calls in one game
MaxMines == 2       \* mines laid on the board
MaxDim == 2         \* small boards are MaxDim x MaxDim or less
MaxCount == 3       \* free-standing Sentences have |count| <= MaxCount

(* ---------------- program constants ---------------- *)
DefaultHeight == 8
DefaultWidth == 8

Dims == {<<h, w>> : h \in 1..MaxDim, w \in 1..MaxDim} \cup {<<DefaultHeight, DefaultWidth>>}

AllCells(h, w) == {<<i, j>> : i \in 0..(h - 1), j \in 0..(w - 1)}
\* the corner of the board where mines are laid and cells are observed
Corner == {<<0, 0>>, <<0, 1>>, <<0, 2>>, <<1, 0>>, <<1, 1>>, <<1, 2>>}
Window(h, w) == AllCells(h, w) \cap Corner

(* ---------------- return values ---------------- *)
NoCell == <<>>
RetNone(op) == [op |-> op, kind |-> "None", cell |-> NoCell, cells |-> {}]
\* a call that returns None, with the cell it was given
RetArg(op, c) == [op |-> op, kind |-> "None", cell |-> c, cells |-> {}]
RetCell(op, c) == [op |-> op, kind |-> "cell", cell |-> c, cells |-> {}]
RetCells(op, S) == [op |-> op, kind |-> "cells", cell |-> NoCell, cells |-> S]
RetError(op) == [op |-> op, kind |-> "IndexError", cell |-> NoCell, cells |-> {}]

(* ---------------- Minesweeper (board) ---------------- *)
is_mine(b, cell) == cell \in b

\* the cells nearby_mines loops over: within one row and column of the
\* cell, not the cell itself, in bounds
nearby_cells(h, w, cell) ==
  {c \in {<<i, j>> : i \in (cell[1] - 1)..(cell[1] + 1),
                     j \in (cell[2] - 1)..(cell[2] + 1)} :
     /\ c # cell
     /\ 0 <= c[1] /\ c[1] < h /\ 0 <= c[2] /\ c[2] < w}

nearby_mines(b, h, w, cell) ==
  Cardinality({c \in nearby_cells(h, w, cell) : c \in b})

(* ---------------- Sentence ---------------- *)
Sentence(cells, count) == [cells |-> cells, count |-> count]

Sentence_eq(a, b) == a.cells = b.cells /\ a.count = b.count

\* result of a Sentence query: None, or a set of cells
None == [none |-> TRUE, cells |-> {}]
Some(S) == [none |-> FALSE, cells |-> S]

known_mines_loose(s) ==
  IF Cardinality(s.cells) >= s.count THEN Some(s.cells) ELSE None

known_mines(s) ==
  IF Cardinality(s.cells) = s.count THEN Some(s.cells) ELSE None

known_safes(s) ==
  IF Cardinality(s.cells) = 0 THEN Some(s.cells) ELSE None

Sentence_mark_mine_unguarded(s, cell) ==
  [cells |-> s.cells \ {cell}, count |-> s.count - 1]

Sentence_mark_mine(s, cell) ==
  IF cell \in s.cells
    THEN [cells |-> s.cells \ {cell}, count |-> s.count - 1]
    ELSE s

Sentence_mark_safe(s, cell) ==
  IF cell \in s.cells
    THEN [cells |-> s.cells \ {cell}, count |-> s.count]
    ELSE s

(* ---------------- MinesweeperAI ---------------- *)
\* the AI's fields as one value, so that the methods compose
KB == [moves_made |-> moves_made, mines |-> mines, safes |-> safes,
       knowledge |-> knowledge]

InitKB == [moves_made |-> {}, mines |-> {}, safes |-> {}, knowledge |-> <<>>]

mark_mine(st, cell) ==
  [st EXCEPT !.mines = @ \cup {cell},
             !.knowledge = [i \in 1..Len(@) |-> Sentence_mark_mine(@[i], cell)]]

mark_safe(st, cell) ==
  [st EXCEPT !.safes = @ \cup {cell},
             !.knowledge = [i \in 1..Len(@) |-> Sentence_mark_safe(@[i], cell)]]

\* for m in mines: self.mark_mine(m)
RECURSIVE mark_mine_all(_, _)
mark_mine_all(st, S) ==
  IF S = {} THEN st
  ELSE LET c == CHOOSE x \in S : TRUE
       IN mark_mine_all(mark_mine(st, c), S \ {c})

\* for s in safes: self.mark_safe(s)
RECURSIVE mark_safe_all(_, _)
mark_safe_all(st, S) ==
  IF S = {} THEN st
  ELSE LET c == CHOOSE x \in S : TRUE
       IN mark_safe_all(mark_safe(st, c), S \ {c})

\* the neighbour list of add_knowledge, with its literal coordinates
neighbours(h, w, cell) ==
  LET r == cell[1]
      c == cell[2]
  IN IF r = 0 /\ c = 0 THEN {<<0, 1>>, <<1, 0>>, <<1, 1>>}
     ELSE IF r = 0 /\ c = w - 1 THEN {<<0, 6>>, <<1, 6>>, <<1, 7>>}
     ELSE IF r = h - 1 /\ c = 0 THEN {<<6, 0>>, <<6, 1>>, <<7, 1>>}
     ELSE IF r = h - 1 /\ c = w - 1 THEN {<<6, 6>>, <<6, 7>>, <<7, 6>>}
     ELSE IF r >= 1 /\ r <= h - 2 /\ c = 0
       THEN {<<r - 1, 0>>, <<r - 1, 1>>, <<r, 1>>, <<r + 1, 0>>, <<r + 1, 1>>}
     ELSE IF r >= 1 /\ r <= h - 2 /\ c = w - 1
       THEN {<<r - 1, 6>>, <<r - 1, 7>>, <<r, 6>>, <<r + 1, 6>>, <<r + 1, 7>>}
     ELSE IF r = 0 /\ c >= 1 /\ c <= w - 2
       THEN {<<0, c - 1>>, <<0, c + 1>>, <<1, c - 1>>, <<1, c>>, <<1, c + 1>>}
     ELSE IF r = h - 1 /\ c >= 1 /\ c <= w - 2
       THEN {<<6, c - 1>>, <<6, c>>, <<6, c + 1>>, <<7, c - 1>>, <<7, c + 1>>}
     ELSE {<<r - 1, c - 1>>, <<r - 1, c>>, <<r - 1, c + 1>>,
           <<r, c - 1>>, <<r, c + 1>>,
           <<r + 1, c - 1>>, <<r + 1, c>>, <<r + 1, c + 1>>}

mark_like_cell_skipped(st, S, cell) == st

\* for c in sentence.cells: mark c as the observed cell is marked
RECURSIVE mark_like_cell(_, _, _)
mark_like_cell(st, S, cell) ==
  IF S = {} THEN st
  ELSE LET c == CHOOSE x \in S : TRUE
           nx == IF cell \in st.mines THEN mark_mine(st, c)
                 ELSE IF cell \in st.safes THEN mark_safe(st, c)
                 ELSE st
       IN mark_like_cell(nx, S \ {c}, cell)

subset_sets_nonempty(kn, sentence) ==
  SelectSeq([i \in 1..Len(kn) |->
               Sentence(kn[i].cells \ sentence.cells, kn[i].count - sentence.count)],
            LAMBDA s : s.cells # {})

\* sets: one Sentence per Sentence of knowledge, minus the new one
subset_sets(kn, sentence) ==
  [i \in 1..Len(kn) |->
     Sentence(kn[i].cells \ sentence.cells, kn[i].count - sentence.count)]

\* the lists mines and safes gathered over knowledge
gather_mines(kn) ==
  UNION {known_mines(kn[i]).cells : i \in {k \in 1..Len(kn) : known_mines(kn[k]) # None}}

gather_safes(kn) ==
  UNION {known_safes(kn[i]).cells : i \in {k \in 1..Len(kn) : known_safes(kn[k]) # None}}

record_move_only(st, cell) == [st EXCEPT !.moves_made = {cell}]

\* self.moves_made.add(cell)
record_move(st, cell) == [st EXCEPT !.moves_made = @ \cup {cell}]

\* the Sentence built for the observation
new_sentence(h, w, cell, count) == Sentence(neighbours(h, w, cell), count)

\* add_knowledge up to the end of the subset step, before the final marks
derive(st, h, w, cell, count) ==
  LET s1 == record_move(st, cell)
      s2 == mark_safe(s1, cell)
      sentence == new_sentence(h, w, cell, count)
      s3 == mark_like_cell(s2, sentence.cells, cell)
      s4 == [s3 EXCEPT !.knowledge = Append(@, sentence)]
  IN [s4 EXCEPT !.knowledge = @ \o subset_sets(@, sentence)]

add_knowledge(st, h, w, cell, count) ==
  LET s5 == derive(st, h, w, cell, count)
      ms == gather_mines(s5.knowledge)
      ss == gather_safes(s5.knowledge)
      s6 == mark_mine_all(s5, ms)
      s7 == mark_safe_all(s6, ss)
  IN s7

\* the scan of make_safe_move from index k, row by row
RECURSIVE safe_scan(_, _, _, _)
safe_scan(st, h, w, k) ==
  IF k >= h * w THEN NoCell
  ELSE LET cell == <<k \div w, k % w>>
       IN IF cell \notin st.moves_made /\ cell \in st.safes
            THEN cell
            ELSE safe_scan(st, h, w, k + 1)

make_safe_move(st, h, w) == safe_scan(st, h, w, 0)

random_cells_keep_mines(st, h, w) == AllCells(h, w) \ st.moves_made

\* the cells make_random_move chooses among
random_cells(st, h, w) == (AllCells(h, w) \ st.moves_made) \ st.mines

(* ---------------- the game ---------------- *)
Init ==
  /\ \E d \in Dims : height = d[1] /\ width = d[2]
  /\ board \in {b \in SUBSET Window(height, width) : Cardinality(b) <= MaxMines}
  /\ moves_made = {}
  /\ mines = {}
  /\ safes = {}
  /\ knowledge = <<>>
  /\ calls = 0
  /\ marks = 0
  /\ ret = RetNone("init")

SetKB(st) ==
  /\ moves_made' = st.moves_made
  /\ mines' = st.mines
  /\ safes' = st.safes
  /\ knowledge' = st.knowledge

\* the driver observes a cell that is not a mine and reports its count
AddKnowledge ==
  /\ calls < MaxCalls
  /\ marks = 0     \* observations come before any marking by hand
  /\ \E cell \in Window(height, width) :
       /\ ~is_mine(board, cell)
       /\ SetKB(add_knowledge(KB, height, width, cell,
                              nearby_mines(board, height, width, cell)))
       /\ ret' = RetArg("add_knowledge", cell)
  /\ calls' = calls + 1
  /\ UNCHANGED <<height, width, board, marks>>

MakeSafeMove_recording ==
  /\ LET m == make_safe_move(KB, height, width)
     IN /\ ret' = IF m = NoCell THEN RetNone("make_safe_move")
                  ELSE RetCell("make_safe_move", m)
        /\ moves_made' = IF m = NoCell THEN moves_made ELSE moves_made \cup {m}
  /\ UNCHANGED <<height, width, board, mines, safes, knowledge, calls, marks>>

MakeSafeMove ==
  /\ ret' = LET m == make_safe_move(KB, height, width)
            IN IF m = NoCell THEN RetNone("make_safe_move")
               ELSE RetCell("make_safe_move", m)
  /\ UNCHANGED <<height, width, board, moves_made, mines, safes, knowledge, calls, marks>>

\* random.choice raises IndexError on an empty list
MakeRandomMove ==
  /\ LET cells == random_cells(KB, height, width)
     IN IF cells = {} THEN ret' = RetError("make_random_move")
        ELSE \E move \in cells : ret' = RetCell("make_random_move", move)
  /\ UNCHANGED <<height, width, board, moves_made, mines, safes, knowledge, calls, marks>>

Next == AddKnowledge \/ MakeSafeMove \/ MakeRandomMove

Spec == Init /\ [][Next]_vars

(* ---------------- marking by hand ---------------- *)
\* mark_mine and mark_safe called from outside, once or twice, on the
\* knowledge bases that add_knowledge builds
MarkMine ==
  /\ marks < 2
  /\ \E cell \in Corner :
       /\ SetKB(mark_mine(KB, cell))
       /\ ret' = RetArg("mark_mine", cell)
  /\ marks' = marks + 1
  /\ UNCHANGED <<height, width, board, calls>>

MarkSafe ==
  /\ marks < 2
  /\ \E cell \in Corner :
       /\ SetKB(mark_safe(KB, cell))
       /\ ret' = RetArg("mark_safe", cell)
  /\ marks' = marks + 1
  /\ UNCHANGED <<height, width, board, calls>>

NextMark == AddKnowledge \/ MarkMine \/ MarkSafe

SpecMark == Init /\ [][NextMark]_vars

(* ---------------- free-standing Sentences ---------------- *)
\* a Sentence built from any cells and any count, held as knowledge[1]
InitSentence ==
  /\ height = DefaultHeight
  /\ width = DefaultWidth
  /\ board = {}
  /\ moves_made = {}
  /\ mines = {}
  /\ safes = {}
  /\ \E cells \in SUBSET Window(DefaultHeight, DefaultWidth) :
       \E count \in (0 - MaxCount)..MaxCount :
         knowledge = <<Sentence(cells, count)>>
  /\ calls = 0
  /\ marks = 0
  /\ ret = RetNone("init")

RetOf(op, r) == IF r = None THEN RetNone(op) ELSE RetCells(op, r.cells)

KnownMines ==
  /\ ret' = RetOf("known_mines", known_mines(knowledge[1]))
  /\ UNCHANGED <<height, width, board, moves_made, mines, safes, knowledge, calls, marks>>

KnownSafes ==
  /\ ret' = RetOf("known_safes", known_safes(knowledge[1]))
  /\ UNCHANGED <<height, width, board, moves_made, mines, safes, knowledge, calls, marks>>

SentenceMarkMine ==
  /\ \E cell \in Window(DefaultHeight, DefaultWidth) :
       knowledge' = <<Sentence_mark_mine(knowledge[1], cell)>>
  /\ ret' = RetNone("mark_mine")
  /\ UNCHANGED <<height, width, board, moves_made, mines, safes, calls, marks>>

SentenceMarkSafe ==
  /\ \E cell \in Window(DefaultHeight, DefaultWidth) :
       knowledge' = <<Sentence_mark_safe(knowledge[1], cell)>>
  /\ ret' = RetNone("mark_safe")
  /\ UNCHANGED <<height, width, board, moves_made, mines, safes, calls, marks>>

NextSentence == KnownMines \/ KnownSafes \/ SentenceMarkMine \/ SentenceMarkSafe

SpecSentence == InitSentence /\ [][NextSentence]_vars

(* ---------------- properties ---------------- *)

\* C1: under valid board input, safes and mines are disjoint in every
\* reachable state.
C1_SafesMinesDisjoint == safes \cap mines = {}

\* C2: under valid board input no cell of safes is a mine of the board, so
\* the cell make_safe_move returns is never a mine.
C2_SafesAreSafe ==
  /\ \A c \in safes : ~is_mine(board, c)
  /\ (ret.op = "make_safe_move" /\ ret.kind = "cell") => ~is_mine(board, ret.cell)

\* C3: under valid board input every cell of the AI's mines is a mine of
\* the board.
C3_MinesAreMines == \A c \in mines : is_mine(board, c)

\* C4: under valid board input every Sentence of knowledge has
\* 0 <= count <= |cells|.
C4_CountInRange ==
  \A i \in 1..Len(knowledge) :
    0 <= knowledge[i].count /\ knowledge[i].count <= Cardinality(knowledge[i].cells)

\* C5: known_safes returns the Sentence's cells iff count = 0 and None
\* otherwise.
C5_KnownSafesIffCountZero ==
  ret.op = "known_safes" =>
    IF knowledge[1].count = 0
      THEN ret.kind = "cells" /\ ret.cells = knowledge[1].cells
      ELSE ret.kind = "None"

\* C6: known_mines returns the Sentence's cells iff |cells| = count and None
\* otherwise; for no cells and count 0 it returns the empty set.
C6_KnownMinesIffFull ==
  ret.op = "known_mines" =>
    IF Cardinality(knowledge[1].cells) = knowledge[1].count
      THEN ret.kind = "cells" /\ ret.cells = knowledge[1].cells
      ELSE ret.kind = "None"

C6_Witness ==
  /\ ret.op = "known_mines"
  /\ ret.kind = "cells"
  /\ Cardinality(ret.cells) = 2
  /\ knowledge[1].count = 2

\* C7: when no board cell is left outside moves_made and mines,
\* make_random_move returns None and does not end in an error.
C7_RandomMoveNoneWhenExhausted ==
  (ret.op = "make_random_move" /\ random_cells(KB, height, width) = {})
    => ret.kind = "None"

\* C8: make_random_move never returns a cell of mines or moves_made, and
\* returns None only when no board cell outside both exists.
C8_RandomMoveAvoidsKnown ==
  ret.op = "make_random_move" =>
    /\ ret.kind = "cell" =>
         /\ ret.cell \in AllCells(height, width)
         /\ ret.cell \notin mines
         /\ ret.cell \notin moves_made
    /\ ret.kind = "None" =>
         \A c \in AllCells(height, width) : c \in mines \/ c \in moves_made

C8_Witness ==
  /\ ret.op = "make_random_move"
  /\ ret.kind = "cell"
  /\ mines # {}
  /\ moves_made # {}
  /\ mines \cap AllCells(height, width) # {}

\* the least cell of S in row-major order
RowMajorLeast(S) ==
  CHOOSE c \in S : \A d \in S : c[1] < d[1] \/ (c[1] = d[1] /\ c[2] <= d[2])

\* C9: for any board, make_safe_move returns the row-major least cell of
\* safes minus moves_made, and None exactly when that set is empty.
C9_SafeMoveLeastOrNone ==
  ret.op = "make_safe_move" =>
    IF safes \ moves_made = {}
      THEN ret.kind = "None"
      ELSE ret.kind = "cell" /\ ret.cell = RowMajorLeast(safes \ moves_made)

\* C10: make_safe_move and make_random_move leave moves_made, safes, mines
\* and knowledge unchanged.
C10_QueriesArePure ==
  [][(ret'.op \in {"make_safe_move", "make_random_move"}) => UNCHANGED kb]_vars

C10_Witness ==
  /\ ret.op = "make_safe_move"
  /\ ret.kind = "cell"
  /\ knowledge # <<>>
  /\ mines # {}

\* C11: calling mark_mine(c) a second time, right after mark_mine(c), changes
\* nothing (mines, safes, every Sentence's cells and count), and likewise
\* for mark_safe(c).
C11_MarkIdempotent ==
  [][(/\ ret.op \in {"mark_mine", "mark_safe"}
      /\ ret'.op = ret.op
      /\ ret'.cell = ret.cell
      /\ marks' = marks + 1) => UNCHANGED kb]_vars

C11_Witness ==
  /\ marks = 2
  /\ ret.op = "mark_mine"
  /\ mines = {ret.cell}
  /\ calls = 1
  /\ \E m \in moves_made :
       /\ ret.cell \in neighbours(height, width, m)
       /\ knowledge[1].cells = neighbours(height, width, m) \ {ret.cell}
       /\ knowledge[1].count = nearby_mines(board, height, width, m) - 1

\* C12: for every board size and every cell of the board, the neighbour set
\* add_knowledge computes is the set of in-bounds cells within one row and
\* column of the cell, the cell excluded, as nearby_mines counts over.
C12_NeighboursClipped ==
  ret.op = "add_knowledge" =>
    neighbours(height, width, ret.cell) = nearby_cells(height, width, ret.cell)

\* an add_knowledge step; ret'.cell is the observed cell
AddStep == ret'.op = "add_knowledge" /\ calls' = calls + 1

\* the knowledge of that step as the subset step leaves it
Derived == derive(KB, height, width, ret'.cell,
                  nearby_mines(board, height, width, ret'.cell)).knowledge

\* C13: the Sentence add_knowledge adds for the observation holds only
\* neighbours of the cell that were in neither mines nor safes, and its count
\* is the reported count less the neighbours already in mines.
C13_NewSentenceUndetermined ==
  [][AddStep =>
       LET nb == neighbours(height, width, ret'.cell)
           added == Derived[Len(knowledge) + 1]
       IN /\ added.cells \subseteq nb
          /\ added.cells \cap (mines \cup safes) = {}
          /\ added.count = nearby_mines(board, height, width, ret'.cell)
                             - Cardinality(nb \cap mines)]_vars

\* C14: after add_knowledge(cell, 0) for a cell the board counts 0 for,
\* every in-bounds neighbour of the cell is in safes and none is in mines.
C14_ZeroCountNeighboursSafe ==
  (ret.op = "add_knowledge" /\ nearby_mines(board, height, width, ret.cell) = 0)
    => /\ nearby_cells(height, width, ret.cell) \subseteq safes
       /\ nearby_cells(height, width, ret.cell) \cap mines = {}

\* C15: every Sentence the subset step of add_knowledge derives is
\* (B.cells - A.cells, B.count - A.count) for two distinct Sentences A, B of
\* knowledge with A.cells non-empty and a subset of B.cells.
C15_DerivedFromSubsetPairs ==
  [][AddStep =>
       LET kn == Derived
           n == Len(knowledge) + 1
       IN \A i \in (n + 1)..Len(kn) :
            \E a \in 1..n, b \in 1..n :
              /\ a # b
              /\ kn[a].cells # {}
              /\ kn[a].cells \subseteq kn[b].cells
              /\ Sentence_eq(kn[i], Sentence(kn[b].cells \ kn[a].cells,
                                              kn[b].count - kn[a].count))]_vars

\* C16: every Sentence add_knowledge adds to knowledge has cells and is not
\* equal to a Sentence already in knowledge.
C16_AddedNonEmptyAndNew ==
  [][AddStep =>
       LET kn == Derived
           n == Len(knowledge) + 1
       IN \A i \in n..Len(kn) :
            /\ kn[i].cells # {}
            /\ \A k \in 1..(i - 1) : ~Sentence_eq(kn[k], kn[i])]_vars

\* one further pass over knowledge: the cells known_mines and known_safes
\* give, and the non-empty Sentences subset elimination gives
PassCells(kn) == gather_mines(kn) \cup gather_safes(kn)

PassSentences(kn) ==
  {Sentence(kn[b].cells \ kn[a].cells, kn[b].count - kn[a].count) :
     <<a, b>> \in {p \in (1..Len(kn)) \X (1..Len(kn)) :
                     /\ p[1] # p[2]
                     /\ kn[p[1]].cells # {}
                     /\ kn[p[1]].cells \subseteq kn[p[2]].cells
                     /\ kn[p[2]].cells \ kn[p[1]].cells # {}}}

C18_ContradictionReported ==
  [][AddStep =>
       LET kn == Derived
           n == Len(knowledge) + 1
       IN (\E i \in (n + 1)..Len(kn) :
             kn[i].count < 0 \/ kn[i].count > Cardinality(kn[i].cells))
          => ret'.kind # "None"]_vars

\* C19: after add_knowledge(cell, count) the cell is in moves_made and in
\* safes, and no step ever takes a cell out of moves_made.
C19_MovesMadeGrows ==
  [][/\ moves_made \subseteq moves_made'
     /\ AddStep => (ret'.cell \in moves_made' /\ ret'.cell \in safes')]_vars

C19_Witness ==
  /\ ret.op = "add_knowledge"
  /\ calls = 2
  /\ Cardinality(moves_made) = 2
  /\ moves_made \subseteq safes

\* C20: no step shortens knowledge, each add_knowledge call takes its length
\* from k to 2 * (k + 1), and after n calls the length is 2^(n+1) - 2.
C20_KnowledgeLength ==
  /\ [](Len(knowledge) = 2 ^ (calls + 1) - 2)
  /\ [][/\ Len(knowledge') >= Len(knowledge)
         /\ AddStep => Len(knowledge') = 2 * (Len(knowledge) + 1)]_vars

C20_Witness ==
  /\ ret.op = "add_knowledge"
  /\ calls = 2
  /\ Len(knowledge) = 6

====
